---- MODULE Spec2Model ----
(***************************************************************************)
(* Model of the colosseum translation / grammar services.                  *)
(*                                                                         *)
(* Texts are sequences of one-character strings.  A message built by an    *)
(* f-string is the sequence of its fragments (literal pieces and           *)
(* interpolated values, in order); None and the empty string are both the  *)
(* empty sequence, which is what the code's truthiness tests distinguish.  *)
(* A dict is a sequence of <<key, value>> pairs in insertion order.        *)
(***************************************************************************)
EXTENDS Integers, Sequences, FiniteSets, TLC

\* ------------------------------------------------------------------ bounds
MaxTargets == 3          \* longest targetLanguages list a client sends

\* ------------------------------------------------------- configuration
\* config.py reads both from the environment / config.yaml; the model takes
\* a registry of two codes and a one-character length limit.
MAX_TEXT_LENGTH == 1
SUPPORTED_LANGUAGES == <<"es", "fr">>

None == <<>>

Codes == {"es", "fr", "xyz", "tlh"}       \* codes a client may send
TextChars == {" ", "a"}                   \* characters of a request text
\* texts the generation model answers with: empty, blank, plain, padded
RespTexts == {<<>>, <<" ">>, <<"x">>, <<" ", "x", " ">>}

SeqsUpTo(S, n) == UNION {[1..k -> S] : k \in 0..n}

Texts == SeqsUpTo(TextChars, MAX_TEXT_LENGTH + 1)
TargetLists == SeqsUpTo(Codes, MaxTargets)

Range(s) == {s[i] : i \in 1..Len(s)}

\* ------------------------------------------------------- str helpers
Whitespace == {" ", "\t", "\n"}

RECURSIVE lstrip(_)
lstrip(t) == IF t # <<>> /\ Head(t) \in Whitespace THEN lstrip(Tail(t)) ELSE t

RECURSIVE rstrip(_)
rstrip(t) ==
    IF t # <<>> /\ t[Len(t)] \in Whitespace THEN rstrip(SubSeq(t, 1, Len(t) - 1)) ELSE t

strip(t) == rstrip(lstrip(t))

\* sep.join(items), as message fragments
RECURSIVE join(_, _)
join(sep, items) ==
    IF items = <<>> THEN <<>>
    ELSE IF Len(items) = 1 THEN <<items[1]>>
    ELSE <<items[1], sep>> \o join(sep, Tail(items))

\* [x for x in items if x not in allowed]
RECURSIVE ListNotIn(_, _)
ListNotIn(items, allowed) ==
    IF items = <<>> THEN <<>>
    ELSE IF Head(items) \in allowed
         THEN ListNotIn(Tail(items), allowed)
         ELSE <<Head(items)>> \o ListNotIn(Tail(items), allowed)

\* ------------------------------------------------------- dict helpers
DictKeys(d) == [i \in 1..Len(d) |-> d[i][1]]
DictHas(d, k) == \E i \in 1..Len(d) : d[i][1] = k
DictGet(d, k) == d[CHOOSE i \in 1..Len(d) : d[i][1] = k][2]
\* d[k] = v : an existing key keeps its position
DictSet(d, k, v) ==
    IF DictHas(d, k)
    THEN [i \in 1..Len(d) |-> IF d[i][1] = k THEN <<k, v>> ELSE d[i]]
    ELSE Append(d, <<k, v>>)

\* ------------------------------------------------------- agno: validation
\* mutant: the length rule is tested before the empty-text rule
validate_request_length_first(request) ==
    IF Len(request.sourceText) > MAX_TEXT_LENGTH
    THEN <<"Source text exceeds maximum length of ", ToString(MAX_TEXT_LENGTH), " characters">>
    ELSE IF request.sourceText = <<>> \/ strip(request.sourceText) = <<>>
    THEN <<"Source text cannot be empty">>
    ELSE IF request.targetLanguages = <<>> \/ Len(request.targetLanguages) = 0
    THEN <<"At least one target language must be specified">>
    ELSE LET unsupported_languages ==
                 ListNotIn(request.targetLanguages, Range(SUPPORTED_LANGUAGES))
         IN IF unsupported_languages # <<>>
            THEN <<"Unsupported language codes: ">> \o join(", ", unsupported_languages)
            ELSE None

\* mutant: the message joins the whole target list
validate_request_names_all(request) ==
    IF request.sourceText = <<>> \/ strip(request.sourceText) = <<>>
    THEN <<"Source text cannot be empty">>
    ELSE IF Len(request.sourceText) > MAX_TEXT_LENGTH
    THEN <<"Source text exceeds maximum length of ", ToString(MAX_TEXT_LENGTH), " characters">>
    ELSE IF request.targetLanguages = <<>> \/ Len(request.targetLanguages) = 0
    THEN <<"At least one target language must be specified">>
    ELSE LET unsupported_languages ==
                 ListNotIn(request.targetLanguages, Range(SUPPORTED_LANGUAGES))
         IN IF unsupported_languages # <<>>
            THEN <<"Unsupported language codes: ">> \o join(", ", request.targetLanguages)
            ELSE None

\* TranslationService.validate_request
TranslationService_validate_request(request) ==
    IF request.sourceText = <<>> \/ strip(request.sourceText) = <<>>
    THEN <<"Source text cannot be empty">>
    ELSE IF Len(request.sourceText) > MAX_TEXT_LENGTH
    THEN <<"Source text exceeds maximum length of ", ToString(MAX_TEXT_LENGTH), " characters">>
    ELSE IF request.targetLanguages = <<>> \/ Len(request.targetLanguages) = 0
    THEN <<"At least one target language must be specified">>
    ELSE LET unsupported_languages ==
                 ListNotIn(request.targetLanguages, Range(SUPPORTED_LANGUAGES))
         IN IF unsupported_languages # <<>>
            THEN <<"Unsupported language codes: ">> \o join(", ", unsupported_languages)
            ELSE None

\* AnalysisService.validate_request
AnalysisService_validate_request(request) ==
    IF request.text = <<>> \/ strip(request.text) = <<>>
    THEN <<"Text cannot be empty">>
    ELSE IF Len(request.text) > MAX_TEXT_LENGTH
    THEN <<"Text exceeds maximum length of ", ToString(MAX_TEXT_LENGTH), " characters">>
    ELSE IF request.languageCode \notin Range(SUPPORTED_LANGUAGES)
    THEN <<"Unsupported language code: ", request.languageCode>>
    ELSE None

\* ------------------------------------------------------- autogen / crewai
\* mutant: the same-language rule is tested before the other rules
autogen_validate_request_same_first(request) ==
    IF request.source_language = request.target_language
    THEN <<"Source and target languages cannot be the same">>
    ELSE IF request.text = <<>> \/ strip(request.text) = <<>>
    THEN <<"Text cannot be empty">>
    ELSE IF Len(request.text) > MAX_TEXT_LENGTH
    THEN <<"Text exceeds maximum length of ", ToString(MAX_TEXT_LENGTH), " characters">>
    ELSE IF request.source_language \notin Range(SUPPORTED_LANGUAGES)
    THEN <<"Unsupported source language. Supported: ">> \o join(", ", SUPPORTED_LANGUAGES)
    ELSE IF request.target_language \notin Range(SUPPORTED_LANGUAGES)
    THEN <<"Unsupported target language. Supported: ">> \o join(", ", SUPPORTED_LANGUAGES)
    ELSE None

\* TranslationService.validate_request of the single-target variants
autogen_validate_request(request) ==
    IF request.text = <<>> \/ strip(request.text) = <<>>
    THEN <<"Text cannot be empty">>
    ELSE IF Len(request.text) > MAX_TEXT_LENGTH
    THEN <<"Text exceeds maximum length of ", ToString(MAX_TEXT_LENGTH), " characters">>
    ELSE IF request.source_language \notin Range(SUPPORTED_LANGUAGES)
    THEN <<"Unsupported source language. Supported: ">> \o join(", ", SUPPORTED_LANGUAGES)
    ELSE IF request.target_language \notin Range(SUPPORTED_LANGUAGES)
    THEN <<"Unsupported target language. Supported: ">> \o join(", ", SUPPORTED_LANGUAGES)
    ELSE IF request.source_language = request.target_language
    THEN <<"Source and target languages cannot be the same">>
    ELSE None

\* TranslationResult of the single-target variants (ag2 models.py)
autogen_TranslationResult(translated_text, source_language, target_language, error) ==
    IF error # <<>>
    THEN [translated_text |-> <<>>, source_language |-> "", target_language |-> "",
          confidence |-> "0.0", error |-> error]
    ELSE [translated_text |-> translated_text, source_language |-> source_language,
          target_language |-> target_language, confidence |-> "0.95", error |-> None]

\* the longest text the request model of the single-target variants takes
MAX_REQUEST_TEXT == 1000

\* construction of the single-target TranslationRequest: the errors of the
\* text field (Field(..., min_length=1, max_length=1000)), None when it fits
single_TranslationRequest_errors(text) ==
    IF Len(text) < 1 THEN <<"text: min_length=1">>
    ELSE IF Len(text) > MAX_REQUEST_TEXT
    THEN <<"text: max_length=", ToString(MAX_REQUEST_TEXT)>>
    ELSE <<>>

\* ------------------------------------------------------- langgraph
\* the validate node of TranslationGraph: the state it returns
validate_input(state) ==
    IF state.text = <<>> \/ strip(state.text) = <<>>
    THEN [state EXCEPT !.error = <<"Text cannot be empty">>]
    ELSE IF state.source_language = state.target_language
    THEN [state EXCEPT !.error = <<"Source and target languages cannot be the same">>]
    ELSE state

\* mutant: the format node leaves a blank translation alone
format_output_lenient(state) == state

\* the format node of TranslationGraph
format_output(state) ==
    IF state.translated_text = <<>> /\ state.error = <<>>
    THEN [state EXCEPT !.error = <<"Translation produced no result">>]
    ELSE state

\* ------------------------------------------------------- agno: annotator
UpperSeq == <<"A", "B", "C", "D", "E", "F", "G", "H", "I", "J", "K", "L", "M", 
              "N", "O", "P", "Q", "R", "S", "T", "U", "V", "W", "X", "Y", "Z">>
LowerSeq == <<"a", "b", "c", "d", "e", "f", "g", "h", "i", "j", "k", "l", "m", 
              "n", "o", "p", "q", "r", "s", "t", "u", "v", "w", "x", "y", "z">>
Upper == Range(UpperSeq)
Lower == Range(LowerSeq)
Digits == {"0", "1", "2", "3", "4", "5", "6", "7", "8", "9"}
WordChars == Upper \cup Lower \cup Digits \cup {"_"}     \* regex \w

\* str.lower()
lower(w) ==
    [i \in 1..Len(w) |->
        IF w[i] \in Upper
        THEN LowerSeq[CHOOSE k \in 1..Len(UpperSeq) : UpperSeq[k] = w[i]]
        ELSE w[i]]

\* str.endswith(suffix)
endswith(w, suffix) ==
    /\ Len(w) >= Len(suffix)
    /\ SubSeq(w, Len(w) - Len(suffix) + 1, Len(w)) = suffix

\* AnalysisService.COMPONENT_COLORS, keyed by the characters of the type name
COMPONENT_COLORS ==
    <<
      [chars |-> <<"N", "O", "U", "N">>,
       name |-> "NOUN", color |-> "#FF6B6B"],
      [chars |-> <<"V", "E", "R", "B">>,
       name |-> "VERB", color |-> "#4ECDC4"],
      [chars |-> <<"A", "D", "J", "E", "C", "T", "I", "V", "E">>,
       name |-> "ADJECTIVE", color |-> "#45B7D1"],
      [chars |-> <<"A", "D", "V", "E", "R", "B">>,
       name |-> "ADVERB", color |-> "#96CEB4"],
      [chars |-> <<"P", "R", "E", "P", "O", "S", "I", "T", "I", "O", "N">>,
       name |-> "PREPOSITION", color |-> "#FFEAA7"],
      [chars |-> <<"C", "O", "N", "J", "U", "N", "C", "T", "I", "O", "N">>,
       name |-> "CONJUNCTION", color |-> "#DDA0DD"],
      [chars |-> <<"P", "R", "O", "N", "O", "U", "N">>,
       name |-> "PRONOUN", color |-> "#FFB6C1"],
      [chars |-> <<"A", "R", "T", "I", "C", "L", "E">>,
       name |-> "ARTICLE", color |-> "#98FB98"],
      [chars |-> <<"D", "E", "T", "E", "R", "M", "I", "N", "E", "R">>,
       name |-> "DETERMINER", color |-> "#B0E0E6"],
      [chars |-> <<"P", "A", "R", "T", "I", "C", "L", "E">>,
       name |-> "PARTICLE", color |-> "#F0E68C"],
      [chars |-> <<"O", "T", "H", "E", "R">>,
       name |-> "OTHER", color |-> "#D3D3D3"]
    >>

InColors(chars) == \E k \in 1..Len(COMPONENT_COLORS) : COMPONENT_COLORS[k].chars = chars
TypeName(chars) ==
    COMPONENT_COLORS[CHOOSE k \in 1..Len(COMPONENT_COLORS) :
                        COMPONENT_COLORS[k].chars = chars].name
\* COMPONENT_COLORS.get(component_type, COMPONENT_COLORS['OTHER'])
ColorOf(name) ==
    IF \E k \in 1..Len(COMPONENT_COLORS) : COMPONENT_COLORS[k].name = name
    THEN COMPONENT_COLORS[CHOOSE k \in 1..Len(COMPONENT_COLORS) :
                             COMPONENT_COLORS[k].name = name].color
    ELSE "#D3D3D3"

\* the first position at or after p (1-based) whose character is not in C
RECURSIVE RunEnd(_, _, _)
RunEnd(s, p, C) ==
    IF p <= Len(s) /\ s[p] \in C THEN RunEnd(s, p + 1, C) ELSE p

NoMatch == [ok |-> FALSE, g1 |-> <<>>, g2 |-> <<>>, end |-> 0]

\* a match of  (\w+)\s*[\|\(\:]\s*([A-Z]+)  starting at p; every quantifier
\* is greedy and a shorter repetition never lets the rest match
Pattern1At(s, p) ==
    LET q == RunEnd(s, p, WordChars)
        r == RunEnd(s, q, Whitespace)
        t == RunEnd(s, r + 1, Whitespace)
        u == RunEnd(s, t, Upper)
    IN IF q > p /\ r <= Len(s) /\ s[r] \in {"|", "(", ":"} /\ u > t
       THEN [ok |-> TRUE, g1 |-> SubSeq(s, p, q - 1), g2 |-> SubSeq(s, t, u - 1),
             end |-> u]
       ELSE NoMatch

\* a match of  ([A-Z]+)\s*[\:\-]\s*(\w+)  starting at p
Pattern2At(s, p) ==
    LET q == RunEnd(s, p, Upper)
        r == RunEnd(s, q, Whitespace)
        t == RunEnd(s, r + 1, Whitespace)
        u == RunEnd(s, t, WordChars)
    IN IF q > p /\ r <= Len(s) /\ s[r] \in {":", "-"} /\ u > t
       THEN [ok |-> TRUE, g1 |-> SubSeq(s, p, q - 1), g2 |-> SubSeq(s, t, u - 1),
             end |-> u]
       ELSE NoMatch

\* re.findall(pattern1, analysis) and the loop over its matches
RECURSIVE ApplyPattern1(_, _, _)
ApplyPattern1(s, p, component_map) ==
    IF p > Len(s) THEN component_map
    ELSE LET m == Pattern1At(s, p)
         IN IF m.ok
            THEN ApplyPattern1(s, m.end,
                    IF InColors(m.g2)
                    THEN DictSet(component_map, lower(m.g1), TypeName(m.g2))
                    ELSE component_map)
            ELSE ApplyPattern1(s, p + 1, component_map)

\* re.findall(pattern2, analysis) and the loop over its matches
RECURSIVE ApplyPattern2(_, _, _)
ApplyPattern2(s, p, component_map) ==
    IF p > Len(s) THEN component_map
    ELSE LET m == Pattern2At(s, p)
         IN IF m.ok
            THEN ApplyPattern2(s, m.end,
                    IF InColors(m.g1)
                    THEN DictSet(component_map, lower(m.g2), TypeName(m.g1))
                    ELSE component_map)
            ELSE ApplyPattern2(s, p + 1, component_map)

\* mutant: the pattern-2 matches are applied before the pattern-1 matches
_parse_structured_analysis_pattern2_first(analysis) ==
    ApplyPattern1(analysis, 1, ApplyPattern2(analysis, 1, <<>>))

\* AnalysisService._parse_structured_analysis
_parse_structured_analysis(analysis) ==
    ApplyPattern2(analysis, 1, ApplyPattern1(analysis, 1, <<>>))

\* mutant: the match positions are reported 1-based
RECURSIVE finditer_words_one_based(_, _)
finditer_words_one_based(text, p) ==
    IF p > Len(text) THEN <<>>
    ELSE IF text[p] \in WordChars
    THEN LET q == RunEnd(text, p, WordChars)
         IN <<[word |-> SubSeq(text, p, q - 1), start |-> p, end |-> q]>>
                \o finditer_words_one_based(text, q)
    ELSE finditer_words_one_based(text, p + 1)

\* re.finditer(r'\b\w+\b', text): the maximal word runs, with 0-based
\* start and exclusive end
RECURSIVE finditer_words(_, _)
finditer_words(text, p) ==
    IF p > Len(text) THEN <<>>
    ELSE IF text[p] \in WordChars
    THEN LET q == RunEnd(text, p, WordChars)
         IN <<[word |-> SubSeq(text, p, q - 1), start |-> p - 1, end |-> q - 1]>>
                \o finditer_words(text, q)
    ELSE finditer_words(text, p + 1)

GrammarComponent(word, component_type, start_index, end_index) ==
    [text |-> word, componentType |-> component_type, color |-> ColorOf(component_type),
     startIndex |-> start_index, endIndex |-> end_index, features |-> <<>>]

\* mutant: the mapping is looked up with the word as written
_create_components_from_map_case_sensitive(text, component_map) ==
    LET ms == finditer_words(text, 1)
    IN [k \in 1..Len(ms) |->
          GrammarComponent(ms[k].word,
              IF DictHas(component_map, ms[k].word)
              THEN DictGet(component_map, ms[k].word)
              ELSE "OTHER",
              ms[k].start, ms[k].end)]

\* AnalysisService._create_components_from_map
_create_components_from_map(text, component_map) ==
    LET ms == finditer_words(text, 1)
    IN [k \in 1..Len(ms) |->
          GrammarComponent(ms[k].word,
              IF DictHas(component_map, lower(ms[k].word))
              THEN DictGet(component_map, lower(ms[k].word))
              ELSE "OTHER",
              ms[k].start, ms[k].end)]

articles ==
    {<<"a">>, <<"a", "n">>, <<"t", "h", "e">>}
determiners ==
    {<<"t", "h", "i", "s">>, <<"t", "h", "a", "t">>,
     <<"t", "h", "e", "s", "e">>, <<"t", "h", "o", "s", "e">>, <<"m", "y">>,
     <<"y", "o", "u", "r">>, <<"h", "i", "s">>, <<"h", "e", "r">>,
     <<"i", "t", "s">>, <<"o", "u", "r">>, <<"t", "h", "e", "i", "r">>}
pronouns ==
    {<<"i">>, <<"y", "o", "u">>, <<"h", "e">>, <<"s", "h", "e">>,
     <<"i", "t">>, <<"w", "e">>, <<"t", "h", "e", "y">>, <<"m", "e">>,
     <<"h", "i", "m">>, <<"h", "e", "r">>, <<"u", "s">>,
     <<"t", "h", "e", "m">>}
\* mutant: a preposition list that also holds 'over'
prepositions_with_over ==
    {<<"i", "n">>, <<"o", "n">>, <<"a", "t">>, <<"b", "y">>,
     <<"f", "o", "r">>, <<"w", "i", "t", "h">>, <<"f", "r", "o", "m">>,
     <<"t", "o">>, <<"o", "f">>, <<"a", "b", "o", "u", "t">>,
     <<"i", "n", "t", "o">>, <<"t", "h", "r", "o", "u", "g", "h">>,
     <<"o", "v", "e", "r">>}
prepositions ==
    {<<"i", "n">>, <<"o", "n">>, <<"a", "t">>, <<"b", "y">>,
     <<"f", "o", "r">>, <<"w", "i", "t", "h">>, <<"f", "r", "o", "m">>,
     <<"t", "o">>, <<"o", "f">>, <<"a", "b", "o", "u", "t">>,
     <<"i", "n", "t", "o">>, <<"t", "h", "r", "o", "u", "g", "h">>}
conjunctions ==
    {<<"a", "n", "d">>, <<"o", "r">>, <<"b", "u", "t">>, <<"n", "o", "r">>,
     <<"y", "e", "t">>, <<"s", "o">>, <<"f", "o", "r">>,
     <<"b", "e", "c", "a", "u", "s", "e">>,
     <<"a", "l", "t", "h", "o", "u", "g", "h">>, <<"w", "h", "i", "l", "e">>}

\* mutant: the pronoun and conjunction tests come before the determiner
\* and preposition tests
HeuristicType_pronoun_first(word_lower) ==
    IF word_lower \in articles THEN "ARTICLE"
    ELSE IF word_lower \in pronouns THEN "PRONOUN"
    ELSE IF word_lower \in determiners THEN "DETERMINER"
    ELSE IF word_lower \in conjunctions THEN "CONJUNCTION"
    ELSE IF word_lower \in prepositions THEN "PREPOSITION"
    ELSE IF endswith(word_lower, <<"l", "y">>) THEN "ADVERB"
    ELSE IF \/ endswith(word_lower, <<"i", "n", "g">>)
            \/ endswith(word_lower, <<"e", "d">>)
            \/ endswith(word_lower, <<"e", "n">>) THEN "VERB"
    ELSE "NOUN"

\* the if/elif chain of _create_components_from_text
HeuristicType(word_lower) ==
    IF word_lower \in articles THEN "ARTICLE"
    ELSE IF word_lower \in determiners THEN "DETERMINER"
    ELSE IF word_lower \in pronouns THEN "PRONOUN"
    ELSE IF word_lower \in prepositions THEN "PREPOSITION"
    ELSE IF word_lower \in conjunctions THEN "CONJUNCTION"
    ELSE IF endswith(word_lower, <<"l", "y">>) THEN "ADVERB"
    ELSE IF \/ endswith(word_lower, <<"i", "n", "g">>)
            \/ endswith(word_lower, <<"e", "d">>)
            \/ endswith(word_lower, <<"e", "n">>) THEN "VERB"
    ELSE "NOUN"

\* AnalysisService._create_components_from_text
_create_components_from_text(text) ==
    LET ms == finditer_words(text, 1)
    IN [k \in 1..Len(ms) |->
          GrammarComponent(ms[k].word, HeuristicType(lower(ms[k].word)),
                           ms[k].start, ms[k].end)]

\* AnalysisService.parse_grammar_components
parse_grammar_components(analysis, original_text) ==
    LET component_map == _parse_structured_analysis(analysis)
    IN IF component_map # <<>>
       THEN _create_components_from_map(original_text, component_map)
       ELSE _create_components_from_text(original_text)

\* the calls of the try body that can be made to throw
Raisers == {"_parse_structured_analysis", "_create_components_from_map"}

\* mutant: the except clause returns the empty list
parse_grammar_components_empty_on_error(analysis, original_text, raises) ==
    IF raises = "_parse_structured_analysis"
    THEN <<>>
    ELSE IF /\ raises = "_create_components_from_map"
            /\ _parse_structured_analysis(analysis) # <<>>
    THEN <<>>
    ELSE parse_grammar_components(analysis, original_text)

\* parse_grammar_components with its except clause: when the call named by
\* raises throws inside the try body, the components are the fallback's
parse_grammar_components_raising(analysis, original_text, raises) ==
    IF raises = "_parse_structured_analysis"
    THEN _create_components_from_text(original_text)
    ELSE IF /\ raises = "_create_components_from_map"
            /\ _parse_structured_analysis(analysis) # <<>>
    THEN _create_components_from_text(original_text)
    ELSE parse_grammar_components(analysis, original_text)

\* ------------------------------------------------------- generation model
\* What the HTTP exchange with the generation model ends in: a response
\* body, or one of the exceptions OllamaClient.generate tells apart.
ErrKinds == {"TimeoutException", "ConnectError", "HTTPStatusError", "Exception"}
Responses ==
    [kind : {"ok"}, text : RespTexts]
        \cup [kind : ErrKinds, text : {<<>>}]
NoResponse == [kind |-> "none", text |-> <<>>]

\* OllamaClient.generate: the text, or the exception it raises
OllamaClient_generate(resp) ==
    CASE resp.kind = "ok" -> [raised |-> FALSE, value |-> resp.text]
      [] resp.kind = "TimeoutException" ->
            [raised |-> TRUE,
             value |-> <<"Ollama request timed out after ", "timeout", " seconds">>]
      [] resp.kind = "ConnectError" ->
            [raised |-> TRUE, value |-> <<"Failed to connect to Ollama at ", "base_url">>]
      [] resp.kind = "HTTPStatusError" ->
            [raised |-> TRUE, value |-> <<"Ollama API returned error: ", "status_code">>]
      [] OTHER ->
            [raised |-> TRUE, value |-> <<"Ollama API error: ", "str(e)">>]

\* TranslationAgent.translate, from the point where generate has answered
TranslationAgent_translate(target_language, resp) ==
    LET g == OllamaClient_generate(resp)
        wrap(msg) == [raised |-> TRUE,
                      value |-> <<"Failed to translate to ", target_language, ": ">> \o msg]
    IN IF g.raised THEN wrap(g.value)
       ELSE IF g.value = <<>> \/ strip(g.value) = <<>>
       THEN wrap(<<"Translation returned empty result for language: ", target_language>>)
       ELSE [raised |-> FALSE, value |-> strip(g.value)]

\* AnalysisAgent.analyze, from the point where generate has answered
AnalysisAgent_analyze(language_code, resp) ==
    LET g == OllamaClient_generate(resp)
        wrap(msg) == [raised |-> TRUE,
                      value |-> <<"Failed to analyze grammar for ", language_code, ": ">> \o msg]
    IN IF g.raised THEN wrap(g.value)
       ELSE IF g.value = <<>> \/ strip(g.value) = <<>>
       THEN wrap(<<"Analysis returned empty result for language: ", language_code>>)
       ELSE [raised |-> FALSE, value |-> strip(g.value)]

\* OllamaClient.generate of the single-target variants: one except clause
autogen_generate(resp) ==
    IF resp.kind = "ok"
    THEN [raised |-> FALSE, value |-> resp.text]
    ELSE [raised |-> TRUE, value |-> <<"Ollama API error: ", "str(e)">>]

AnalysisResult(originalText, languageCode, components, error) ==
    [originalText |-> originalText, languageCode |-> languageCode,
     components |-> components, error |-> error]

\* translate_to_language: the (target_language, translated_text, error) tuple
translate_to_language(target_language, resp) ==
    LET t == TranslationAgent_translate(target_language, resp)
    IN IF t.raised
       THEN <<target_language, <<>>, t.value>>
       ELSE <<target_language, t.value, None>>

\* mutant: the results are processed from the last to the first
RECURSIVE ProcessResults_reversed(_, _)
ProcessResults_reversed(results, acc) ==
    IF results = <<>> THEN acc
    ELSE LET r == results[Len(results)]
         IN ProcessResults_reversed(SubSeq(results, 1, Len(results) - 1),
               IF r[3] # <<>>
               THEN [acc EXCEPT !.errors = DictSet(@, r[1], r[3])]
               ELSE [acc EXCEPT !.translations = DictSet(@, r[1], r[2])])

\* the "Process results" loop of translate_text
RECURSIVE ProcessResults(_, _)
ProcessResults(results, acc) ==
    IF results = <<>> THEN acc
    ELSE LET r == Head(results)
         IN ProcessResults(Tail(results),
               IF r[3] # <<>>
               THEN [acc EXCEPT !.errors = DictSet(@, r[1], r[3])]
               ELSE [acc EXCEPT !.translations = DictSet(@, r[1], r[2])])

\* mutant: the first branch tests errors alone
OverallError_errors_only(translations, errors) ==
    IF errors # <<>>
    THEN <<"All translations failed">>
    ELSE None

\* the "Determine overall error message" block of translate_text
OverallError(translations, errors) ==
    IF errors # <<>> /\ translations = <<>>
    THEN <<"All translations failed">>
    ELSE IF errors # <<>>
    THEN <<"Translation failed for: ">> \o join(", ", DictKeys(errors))
    ELSE None

TranslationResult(sourceText, translations, error) ==
    [sourceText |-> sourceText, translations |-> translations, error |-> error]

\* Field(..., max_length=12) and len(v) > 12 of targetLanguages
MAX_TARGET_LANGUAGES == 12
\* Field(..., max_length=10000) of sourceText
MAX_SOURCE_TEXT == 10000

\* the errors pydantic collects for the sourceText field: the Field
\* constraints first, the field validator only when they pass
sourceText_errors(v) ==
    IF Len(v) < 1 THEN <<"sourceText: min_length=1">>
    ELSE IF Len(v) > MAX_SOURCE_TEXT
    THEN <<"sourceText: max_length=", ToString(MAX_SOURCE_TEXT)>>
    ELSE IF v = <<>> \/ strip(v) = <<>>
    THEN <<"Source text cannot be empty">>
    ELSE <<>>

\* mutant: the targetLanguages field without its upper length limit
targetLanguages_errors_unlimited(v) ==
    IF Len(v) < 1 THEN <<"targetLanguages: min_length=1">>
    ELSE <<>>

\* the errors pydantic collects for the targetLanguages field
targetLanguages_errors(v) ==
    IF Len(v) < 1 THEN <<"targetLanguages: min_length=1">>
    ELSE IF Len(v) > MAX_TARGET_LANGUAGES
    THEN <<"targetLanguages: max_length=", ToString(MAX_TARGET_LANGUAGES)>>
    ELSE IF v = <<>>
    THEN <<"At least one target language must be specified">>
    ELSE IF Len(v) > MAX_TARGET_LANGUAGES
    THEN <<"Maximum ", ToString(MAX_TARGET_LANGUAGES), " target languages allowed">>
    ELSE <<>>

\* construction of a TranslationRequest from a request body: the
\* ValidationError lists the errors of every field, None when there are none
TranslationRequest_errors(body) ==
    sourceText_errors(body.sourceText) \o targetLanguages_errors(body.targetLanguages)

\* the errors pydantic collects for the text field of an AnalysisRequest
AnalysisRequest_errors(body) ==
    IF Len(body.text) < 1 THEN <<"text: min_length=1">>
    ELSE IF Len(body.text) > MAX_SOURCE_TEXT
    THEN <<"text: max_length=", ToString(MAX_SOURCE_TEXT)>>
    ELSE IF body.text = <<>> \/ strip(body.text) = <<>>
    THEN <<"Text cannot be empty">>
    ELSE <<>>

\* ------------------------------------------------------------------ state
VARIABLES
    pc,        \* where the request handler is: idle, gather, await, done
    op,        \* the operation the request asked for
    request,   \* the request object
    tasks,     \* the per-language coroutines handed to asyncio.gather
    calls,     \* generation calls made so far for the request
    result     \* the result object the handler returned

vars == <<pc, op, request, tasks, calls, result>>

NoRequest == [sourceText |-> <<>>, targetLanguages |-> <<>>]
NoResult == [sourceText |-> <<>>, translations |-> <<>>, error |-> None]

Init ==
    /\ pc = "idle"
    /\ op = "none"
    /\ request = NoRequest
    /\ tasks = <<>>
    /\ calls = 0
    /\ result = NoResult

\* the codes of a list, each once, in the order of their first occurrence
RECURSIVE first_occurrences(_)
first_occurrences(codes) ==
    IF codes = <<>> THEN <<>>
    ELSE LET front == first_occurrences(SubSeq(codes, 1, Len(codes) - 1))
         IN IF codes[Len(codes)] \in Range(front) THEN front
            ELSE Append(front, codes[Len(codes)])

\* mutant: one task per distinct code, a repeated entry is skipped
translation_tasks_distinct(targetLanguages) ==
    [i \in 1..Len(first_occurrences(targetLanguages)) |->
        [lang |-> first_occurrences(targetLanguages)[i], st |-> "scheduled",
         resp |-> NoResponse, out |-> <<>>]]

\* asyncio.gather(*translation_tasks): one scheduled task per list entry
translation_tasks(targetLanguages) ==
    [i \in 1..Len(targetLanguages) |->
        [lang |-> targetLanguages[i], st |-> "scheduled",
         resp |-> NoResponse, out |-> <<>>]]

\* mutant: a validation error is logged and the fan-out goes on
translate_text_no_return(req) ==
    /\ pc = "idle"
    /\ op' = "translate_text"
    /\ request' = req
    /\ calls' = calls
    /\ tasks' = translation_tasks(req.targetLanguages)
    /\ result' = result
    /\ pc' = "gather"

\* translate_text up to its await: validation, then the fan-out
translate_text(req) ==
    /\ pc = "idle"
    /\ op' = "translate_text"
    /\ request' = req
    /\ calls' = calls
    /\ LET validation_error == TranslationService_validate_request(req)
       IN IF validation_error # <<>>
          THEN /\ result' = TranslationResult(req.sourceText, <<>>, validation_error)
               /\ tasks' = tasks
               /\ pc' = "done"
          ELSE /\ tasks' = translation_tasks(req.targetLanguages)
               /\ result' = result
               /\ pc' = "gather"

\* a per-language task runs up to the HTTP request of OllamaClient.generate
task_call_generate(i) ==
    /\ pc = "gather"
    /\ tasks[i].st = "scheduled"
    /\ tasks' = [tasks EXCEPT ![i].st = "awaiting"]
    /\ calls' = calls + 1
    /\ UNCHANGED <<pc, op, request, result>>

\* mutant: an exception escapes the task and gather cancels the siblings
task_return_cancelling(i, resp) ==
    /\ pc = "gather"
    /\ tasks[i].st = "awaiting"
    /\ LET out == translate_to_language(tasks[i].lang, resp)
       IN tasks' = [j \in 1..Len(tasks) |->
                      IF j = i
                      THEN [tasks[j] EXCEPT !.st = "done", !.resp = resp, !.out = out]
                      ELSE IF out[3] # <<>> /\ tasks[j].st # "done"
                      THEN [tasks[j] EXCEPT !.st = "done",
                                            !.out = <<tasks[j].lang, <<>>, <<"cancelled">>>>]
                      ELSE tasks[j]]
    /\ UNCHANGED <<pc, op, request, calls, result>>

\* mutant: the task stores its translation in the shared map itself
task_return_shared_map(i, resp) ==
    /\ pc = "gather"
    /\ tasks[i].st = "awaiting"
    /\ LET out == translate_to_language(tasks[i].lang, resp)
       IN /\ tasks' = [tasks EXCEPT ![i] =
                         [@ EXCEPT !.st = "done", !.resp = resp, !.out = out]]
          /\ result' = IF out[3] = <<>>
                       THEN [result EXCEPT !.translations =
                                DictSet(result.translations, out[1], out[2])]
                       ELSE result
    /\ UNCHANGED <<pc, op, request, calls>>

\* the HTTP exchange of task i ends and the task runs to its return
task_return(i, resp) ==
    /\ pc = "gather"
    /\ tasks[i].st = "awaiting"
    /\ tasks' = [tasks EXCEPT ![i] =
                    [@ EXCEPT !.st = "done", !.resp = resp,
                              !.out = translate_to_language(tasks[i].lang, resp)]]
    /\ UNCHANGED <<pc, op, request, calls, result>>

\* when asyncio.gather hands the results list back
gather_ready(ts) == \A i \in 1..Len(ts) : ts[i].st = "done"

\* mutant: the handler resumes on the first completed task (asyncio.wait
\* with FIRST_COMPLETED) and aggregates what is there
translate_text_first_completed ==
    /\ pc = "gather"
    /\ op = "translate_text"
    /\ \E i \in 1..Len(tasks) : tasks[i].st = "done"
    /\ LET results == SelectSeq([i \in 1..Len(tasks) |-> tasks[i].out],
                                LAMBDA o : o # <<>>)
           acc == ProcessResults(results, [translations |-> <<>>, errors |-> <<>>])
       IN result' = TranslationResult(request.sourceText, acc.translations,
                                      OverallError(acc.translations, acc.errors))
    /\ pc' = "done"
    /\ UNCHANGED <<op, request, tasks, calls>>

\* mutant: the handler gives up when a call has failed (a gather without
\* return_exceptions whose exception ends the wait) and returns nothing
translate_text_aggregate_unless_failed ==
    /\ pc = "gather"
    /\ op = "translate_text"
    /\ gather_ready(tasks)
    /\ \A i \in 1..Len(tasks) : tasks[i].out[3] = <<>>
    /\ LET results == [i \in 1..Len(tasks) |-> tasks[i].out]
           acc == ProcessResults(results, [translations |-> <<>>, errors |-> <<>>])
       IN result' = TranslationResult(request.sourceText, acc.translations,
                                      OverallError(acc.translations, acc.errors))
    /\ pc' = "done"
    /\ UNCHANGED <<op, request, tasks, calls>>

\* translate_text after the await: aggregation and return
translate_text_aggregate ==
    /\ pc = "gather"
    /\ op = "translate_text"
    /\ gather_ready(tasks)
    /\ LET results == [i \in 1..Len(tasks) |-> tasks[i].out]
           acc == ProcessResults(results, [translations |-> <<>>, errors |-> <<>>])
       IN result' = TranslationResult(request.sourceText, acc.translations,
                                      OverallError(acc.translations, acc.errors))
    /\ pc' = "done"
    /\ UNCHANGED <<op, request, tasks, calls>>

\* analyze_grammar up to its await: validation, then the analysis call
analyze_grammar(req) ==
    /\ pc = "idle"
    /\ op' = "analyze_grammar"
    /\ request' = req
    /\ LET validation_error == AnalysisService_validate_request(req)
       IN IF validation_error # <<>>
          THEN /\ result' = AnalysisResult(req.text, req.languageCode, <<>>,
                                           validation_error)
               /\ tasks' = tasks
               /\ calls' = calls
               /\ pc' = "done"
          ELSE /\ result' = result
               /\ tasks' = <<[lang |-> req.languageCode, st |-> "awaiting",
                              resp |-> NoResponse, out |-> <<>>]>>
               /\ calls' = calls + 1
               /\ pc' = "await"

\* mutant: the try body returns without parsing the analysis
analyze_grammar_return_no_components(resp) ==
    /\ pc = "await"
    /\ op = "analyze_grammar"
    /\ LET a == AnalysisAgent_analyze(request.languageCode, resp)
       IN result' =
            IF a.raised
            THEN AnalysisResult(request.text, request.languageCode, <<>>,
                                <<"Grammar analysis failed: ">> \o a.value)
            ELSE AnalysisResult(request.text, request.languageCode, <<>>, None)
    /\ tasks' = <<[tasks[1] EXCEPT !.st = "done", !.resp = resp]>>
    /\ pc' = "done"
    /\ UNCHANGED <<op, request, calls>>

\* mutant: the except clause keeps the fallback's components beside the error
analyze_grammar_return_with_fallback(resp) ==
    /\ pc = "await"
    /\ op = "analyze_grammar"
    /\ LET a == AnalysisAgent_analyze(request.languageCode, resp)
       IN result' =
            IF a.raised
            THEN AnalysisResult(request.text, request.languageCode,
                                _create_components_from_text(request.text),
                                <<"Grammar analysis failed: ">> \o a.value)
            ELSE AnalysisResult(request.text, request.languageCode,
                                parse_grammar_components(a.value, request.text), None)
    /\ tasks' = <<[tasks[1] EXCEPT !.st = "done", !.resp = resp]>>
    /\ pc' = "done"
    /\ UNCHANGED <<op, request, calls>>

\* analyze_grammar after the await: the try body or the except clause
analyze_grammar_return(resp) ==
    /\ pc = "await"
    /\ op = "analyze_grammar"
    /\ LET a == AnalysisAgent_analyze(request.languageCode, resp)
       IN result' =
            IF a.raised
            THEN AnalysisResult(request.text, request.languageCode, <<>>,
                                <<"Grammar analysis failed: ">> \o a.value)
            ELSE AnalysisResult(request.text, request.languageCode,
                                parse_grammar_components(a.value, request.text), None)
    /\ tasks' = <<[tasks[1] EXCEPT !.st = "done", !.resp = resp]>>
    /\ pc' = "done"
    /\ UNCHANGED <<op, request, calls>>

\* translate_text of the single-target variants up to run_in_executor
autogen_translate_text(req) ==
    /\ pc = "idle"
    /\ op' = "autogen_translate_text"
    /\ request' = req
    /\ tasks' = tasks
    /\ LET validation_error == autogen_validate_request(req)
       IN IF validation_error # <<>>
          THEN /\ result' = autogen_TranslationResult(<<>>, "", "", validation_error)
               /\ calls' = calls
               /\ pc' = "done"
          ELSE /\ result' = result
               /\ calls' = calls + 1
               /\ pc' = "await"

\* the executor call of the single-target translate_text ends
autogen_translate_text_return(resp) ==
    /\ pc = "await"
    /\ op = "autogen_translate_text"
    /\ LET g == autogen_generate(resp)
       IN result' =
            IF g.raised
            THEN autogen_TranslationResult(<<>>, "", "",
                                           <<"Translation failed: ">> \o g.value)
            ELSE autogen_TranslationResult(g.value, request.source_language,
                                           request.target_language, None)
    /\ pc' = "done"
    /\ UNCHANGED <<op, request, tasks, calls>>

\* POST /api/translateText: the body is parsed into a TranslationRequest
\* (a body that fails is answered 422 before the handler runs), then the
\* handler awaits translation_service.translate_text(request)
post_translateText(body) ==
    IF TranslationRequest_errors(body) # <<>>
    THEN /\ pc = "idle"
         /\ op' = "post_translateText"
         /\ request' = body
         /\ result' = [status_code |-> 422,
                       detail |-> TranslationRequest_errors(body)]
         /\ pc' = "done"
         /\ UNCHANGED <<tasks, calls>>
    ELSE translate_text(body)

\* POST /api/analyzeGrammar: the body is parsed into an AnalysisRequest (422
\* when that fails), then the handler awaits analyze_grammar(request)
post_analyzeGrammar(body) ==
    IF AnalysisRequest_errors(body) # <<>>
    THEN /\ pc = "idle"
         /\ op' = "post_analyzeGrammar"
         /\ request' = body
         /\ result' = [status_code |-> 422, detail |-> AnalysisRequest_errors(body)]
         /\ pc' = "done"
         /\ UNCHANGED <<tasks, calls>>
    ELSE analyze_grammar(body)

\* mutant: the handler answers 400 only when the error is a validation one,
\* that is when no task was created
translateText_respond_validation_only ==
    /\ pc = "done"
    /\ op = "translate_text"
    /\ result' = IF result.error # None /\ tasks = <<>>
                 THEN [status_code |-> 400, detail |-> result.error]
                 ELSE [status_code |-> 200, body |-> result]
    /\ pc' = "responded"
    /\ UNCHANGED <<op, request, tasks, calls>>

\* the translateText handler after the await: HTTPException 400 when the
\* result has an error and no translations, the result itself otherwise
translateText_respond ==
    /\ pc = "done"
    /\ op = "translate_text"
    /\ result' = IF result.error # None /\ result.translations = <<>>
                 THEN [status_code |-> 400, detail |-> result.error]
                 ELSE [status_code |-> 200, body |-> result]
    /\ pc' = "responded"
    /\ UNCHANGED <<op, request, tasks, calls>>

\* mutant: the handler returns every result of the service as it is
analyzeGrammar_respond_always_ok ==
    /\ pc = "done"
    /\ op = "analyze_grammar"
    /\ result' = [status_code |-> 200, body |-> result]
    /\ pc' = "responded"
    /\ UNCHANGED <<op, request, tasks, calls>>

\* the analyzeGrammar handler after the await
analyzeGrammar_respond ==
    /\ pc = "done"
    /\ op = "analyze_grammar"
    /\ result' = IF result.error # None /\ result.components = <<>>
                 THEN [status_code |-> 400, detail |-> result.error]
                 ELSE [status_code |-> 200, body |-> result]
    /\ pc' = "responded"
    /\ UNCHANGED <<op, request, tasks, calls>>

\* the dict translate_to_multiple_languages fills in its loop over results
RECURSIVE collect_translations(_, _, _)
collect_translations(target_languages, results, translations) ==
    IF results = <<>> THEN translations
    ELSE collect_translations(Tail(target_languages), Tail(results),
             DictSet(translations, Head(target_languages), Head(results)))

\* translate_to_multiple_languages up to its await: one TranslationRequest
\* is constructed per target code, outside any try, and one translate_text
\* coroutine per request is handed to asyncio.gather
translate_to_multiple_languages(text, source_language, target_languages) ==
    /\ pc = "idle"
    /\ op' = "translate_to_multiple_languages"
    /\ request' = [text |-> text, source_language |-> source_language,
                   target_languages |-> target_languages]
    /\ calls' = calls
    /\ IF target_languages # <<>> /\ single_TranslationRequest_errors(text) # <<>>
       THEN /\ result' = [raised |-> TRUE,
                          value |-> <<"ValidationError: ">>
                                      \o single_TranslationRequest_errors(text),
                          translations |-> <<>>]
            /\ tasks' = tasks
            /\ pc' = "done"
       ELSE /\ tasks' = [i \in 1..Len(target_languages) |->
                            [lang |-> target_languages[i], st |-> "scheduled",
                             resp |-> NoResponse, out |-> <<>>]]
            /\ result' = result
            /\ pc' = "gather"

\* a translate_text coroutine of the gather runs: validation, then the
\* executor call
multiple_translate_text(i) ==
    /\ pc = "gather"
    /\ op = "translate_to_multiple_languages"
    /\ tasks[i].st = "scheduled"
    /\ LET validation_error ==
               autogen_validate_request([text |-> request.text,
                                         source_language |-> request.source_language,
                                         target_language |-> tasks[i].lang])
       IN IF validation_error # <<>>
          THEN /\ tasks' = [tasks EXCEPT ![i] =
                               [@ EXCEPT !.st = "done",
                                         !.out = autogen_TranslationResult(
                                                     <<>>, "", "", validation_error)]]
               /\ calls' = calls
          ELSE /\ tasks' = [tasks EXCEPT ![i].st = "awaiting"]
               /\ calls' = calls + 1
    /\ UNCHANGED <<pc, op, request, result>>

\* the executor call of coroutine i ends and the coroutine returns
multiple_translate_text_return(i, resp) ==
    /\ pc = "gather"
    /\ op = "translate_to_multiple_languages"
    /\ tasks[i].st = "awaiting"
    /\ LET g == autogen_generate(resp)
           out == IF g.raised
                  THEN autogen_TranslationResult(<<>>, "", "",
                                                 <<"Translation failed: ">> \o g.value)
                  ELSE autogen_TranslationResult(g.value, request.source_language,
                                                 tasks[i].lang, None)
       IN tasks' = [tasks EXCEPT ![i] =
                       [@ EXCEPT !.st = "done", !.resp = resp, !.out = out]]
    /\ UNCHANGED <<pc, op, request, calls, result>>

\* translate_to_multiple_languages after the await: the results are stored
\* under their target codes and the dict is returned
translate_to_multiple_languages_return ==
    /\ pc = "gather"
    /\ op = "translate_to_multiple_languages"
    /\ gather_ready(tasks)
    /\ result' = [raised |-> FALSE, value |-> <<>>,
                  translations |->
                      collect_translations(request.target_languages,
                                           [i \in 1..Len(tasks) |-> tasks[i].out],
                                           <<>>)]
    /\ pc' = "done"
    /\ UNCHANGED <<op, request, tasks, calls>>

\* TranslationGraph.translate: the initial state is handed to the compiled
\* graph, whose entry point is the validate node; `tasks` records the nodes
\* that have run, each with the answer of the LLM call it made
TranslationGraph_translate(req) ==
    /\ pc = "idle"
    /\ op' = "TranslationGraph_translate"
    /\ request' = req
    /\ result' = [text |-> req.text, source_language |-> req.source_language,
                  target_language |-> req.target_language,
                  translated_text |-> <<>>, error |-> None]
    /\ tasks' = <<>>
    /\ pc' = "validate"
    /\ UNCHANGED calls

\* the validate node, followed by its edge to translate
TranslationGraph_validate ==
    /\ pc = "validate"
    /\ result' = validate_input(result)
    /\ tasks' = Append(tasks, [node |-> "validate", resp |-> NoResponse])
    /\ pc' = "translate"
    /\ UNCHANGED <<op, request, calls>>

\* the translate node up to self.llm.invoke: a state with an error is
\* returned as it is, and the edge to format is taken
TranslationGraph_translate_text ==
    /\ pc = "translate"
    /\ IF result.error # <<>>
       THEN /\ tasks' = Append(tasks, [node |-> "translate", resp |-> NoResponse])
            /\ pc' = "format"
            /\ UNCHANGED calls
       ELSE /\ calls' = calls + 1
            /\ pc' = "invoke"
            /\ UNCHANGED tasks
    /\ UNCHANGED <<op, request, result>>

\* self.llm.invoke answers or raises, and the translate node returns
TranslationGraph_translate_text_return(resp) ==
    /\ pc = "invoke"
    /\ result' = IF resp.kind = "ok"
                 THEN [result EXCEPT !.translated_text = strip(resp.text)]
                 ELSE [result EXCEPT !.error = <<"Translation failed: ", "str(e)">>]
    /\ tasks' = Append(tasks, [node |-> "translate", resp |-> resp])
    /\ pc' = "format"
    /\ UNCHANGED <<op, request, calls>>

\* the format node, followed by its edge to END
TranslationGraph_format ==
    /\ pc = "format"
    /\ result' = format_output(result)
    /\ tasks' = Append(tasks, [node |-> "format", resp |-> NoResponse])
    /\ pc' = "END"
    /\ UNCHANGED <<op, request, calls>>

\* TranslationGraph.translate after graph.invoke: raise the recorded error
\* or return the translated text
TranslationGraph_translate_return ==
    /\ pc = "END"
    /\ result' = IF result.error # <<>>
                 THEN [raised |-> TRUE, value |-> result.error, state |-> result]
                 ELSE [raised |-> FALSE, value |-> result.translated_text,
                       state |-> result]
    /\ pc' = "done"
    /\ UNCHANGED <<op, request, tasks, calls>>

\* ------------------------------------------------------- annotator inputs
MaxPieces == 3           \* pieces (words, separators) of a source text
MaxItems == 2            \* items of an analysis text

\* the concatenation of a sequence of texts
RECURSIVE Flatten(_)
Flatten(ts) == IF ts = <<>> THEN <<>> ELSE Head(ts) \o Flatten(Tail(ts))

\* the items of an analysis text, one blank between two of them
RECURSIVE JoinItems(_)
JoinItems(ts) ==
    IF ts = <<>> THEN <<>>
    ELSE IF Len(ts) = 1 THEN ts[1]
    ELSE ts[1] \o <<" ">> \o JoinItems(Tail(ts))

\* words in several spellings, a word with a digit and an underscore, and
\* the separators between them
SourcePieces ==
    {<<"T", "h", "e">>, <<"c", "a", "t">>, <<"h", "e", "r">>,
     <<"f", "o", "r">>, <<"a", "_", "1">>, <<" ">>, <<",", " ">>}
\* words that exercise the suffix rules and the default
SuffixWords ==
    {<<"q", "u", "i", "c", "k", "l", "y">>,
     <<"r", "u", "n", "n", "i", "n", "g">>,
     <<"j", "u", "m", "p", "e", "d">>, <<"g", "i", "v", "e", "n">>,
     <<"j", "u", "m", "p", "s">>, <<"o", "v", "e", "r">>, <<"l", "y">>,
     <<"H", "e", "r">>, <<"F", "O", "R">>, <<"l", "i", "k", "e", "l", "y">>,
     <<"x">>}
\* the source text of the specification's first scenario
Scenario1 ==
    <<"T", "h", "e", " ", "q", "u", "i", "c", "k", " ", "b", "r", "o",
      "w", "n", " ", "f", "o", "x", " ", "j", "u", "m", "p", "s", " ",
      "o", "v", "e", "r", " ", "t", "h", "e", " ", "l", "a", "z", "y",
      " ", "d", "o", "g">>
SourceTexts ==
    {Flatten(ps) : ps \in SeqsUpTo(SourcePieces, MaxPieces)}
    \cup articles \cup determiners \cup pronouns \cup prepositions
    \cup conjunctions \cup SuffixWords \cup {Scenario1}
\* source texts of at most one piece
CoreSources == {Flatten(ps) : ps \in SeqsUpTo(SourcePieces, 1)}

\* what an analysis says about a word: the three delimiters of pattern 1,
\* the two of pattern 2, type tokens in and out of the vocabulary, and
\* text without any pattern
AnalysisItems ==
    {<<"c", "a", "t", "|", "N", "O", "U", "N">>,
     <<"c", "a", "t", " ", "(", "V", "E", "R", "B", ")">>,
     <<"T", "h", "e", ":", " ", "A", "R", "T", "I", "C", "L", "E">>,
     <<"c", "a", "t", "|", "X", "X">>,
     <<"N", "O", "U", "N", ":", "c", "a", "t">>,
     <<"V", "E", "R", "B", " ", "-", " ", "c", "a", "t">>,
     <<"X", "X", ":", "c", "a", "t">>,
     <<"A", "D", "V", "E", "R", "B", ":", "T", "h", "e">>,
     <<"t", "h", "e", " ", "c", "a", "t">>,
     <<"N", "O", "U", "N", ":", " ", "V", "E", "R", "B">>}
AnalysisTexts == {JoinItems(ts) : ts \in SeqsUpTo(AnalysisItems, MaxItems)}
\* the analysis texts every source text is annotated with: none, one
\* match of either pattern, a type token outside the vocabulary
CoreAnalyses ==
    {<<>>,
     <<"c", "a", "t", "|", "N", "O", "U", "N">>,
     <<"T", "h", "e", ":", " ", "A", "R", "T", "I", "C", "L", "E">>,
     <<"V", "E", "R", "B", " ", "-", " ", "c", "a", "t">>,
     <<"c", "a", "t", "|", "X", "X">>}

\* the (analysis, original_text) pairs the annotator is called with
AnnotatorInputs ==
    (AnalysisTexts \X CoreSources) \cup (CoreAnalyses \X SourceTexts)

\* a call of parse_grammar_components, with or without a call of its try
\* body throwing
parse_grammar_components_call ==
    /\ pc = "idle"
    /\ \E input \in AnnotatorInputs, raises \in {"none"} \cup Raisers :
          /\ op' = "parse_grammar_components"
          /\ request' = [analysis |-> input[1], original_text |-> input[2],
                         raises |-> raises]
          /\ result' = parse_grammar_components_raising(input[1], input[2], raises)
    /\ pc' = "done"
    /\ UNCHANGED <<tasks, calls>>

TranslationRequests == [sourceText : Texts, targetLanguages : TargetLists]
\* target lists of every length up to one past the limit of the request
\* model, each repeating one code
RepeatedLists ==
    {[i \in 1..n |-> c] : n \in 0..(MAX_TARGET_LANGUAGES + 1), c \in Codes}
\* request bodies: the small lists, and the long ones with a sound text
RequestBodies ==
    TranslationRequests \cup
    [sourceText : {<<"a">>}, targetLanguages : RepeatedLists]
\* a text one character past the length limit of the request models
LongText == [i \in 1..(MAX_SOURCE_TEXT + 1) |-> "a"]
\* bodies posted to /api/translateText
TranslationBodies ==
    TranslationRequests \cup [sourceText : {LongText}, targetLanguages : {<<"es">>}]
\* bodies posted to /api/analyzeGrammar: texts with and without a word
AnalysisBodies ==
    [text : Texts \cup {<<"!">>, <<"!", " ">>, LongText}, languageCode : Codes]
\* what the generation model does with a call of the translation endpoint:
\* a text, a blank text, a refused connection
EndpointResponses ==
    {[kind |-> "ok", text |-> <<"x">>], [kind |-> "ok", text |-> <<" ">>],
     [kind |-> "ConnectError", text |-> <<>>]}
AnalysisRequests == [text : Texts, languageCode : Codes]
AutogenRequests == [text : Texts, source_language : Codes, target_language : Codes]
\* answers to an analysis prompt: the plain ones and a structured one
AnalysisResponses ==
    Responses \cup {[kind |-> "ok", text |-> <<"a", "|", "N", "O", "U", "N">>]}

Next ==
    \/ \E req \in TranslationRequests : translate_text(req)
    \/ \E i \in 1..Len(tasks) : task_call_generate(i)
    \/ \E i \in 1..Len(tasks), resp \in Responses : task_return(i, resp)
    \/ translate_text_aggregate
    \/ \E req \in AnalysisRequests : analyze_grammar(req)
    \/ \E resp \in AnalysisResponses : analyze_grammar_return(resp)
    \/ \E req \in AutogenRequests : autogen_translate_text(req)
    \/ \E resp \in Responses : autogen_translate_text_return(resp)

Spec == Init /\ [][Next]_vars

\* the translation endpoint alone, fed request bodies of every length
NextRequest ==
    \E body \in RequestBodies : post_translateText(body)

SpecRequest == Init /\ [][NextRequest]_vars

\* the two endpoints of the agno service, from the posted body to the
\* HTTP response
NextEndpoint ==
    \/ \E body \in TranslationBodies : post_translateText(body)
    \/ \E i \in 1..Len(tasks) : task_call_generate(i)
    \/ \E i \in 1..Len(tasks), resp \in EndpointResponses : task_return(i, resp)
    \/ translate_text_aggregate
    \/ translateText_respond
    \/ \E body \in AnalysisBodies : post_analyzeGrammar(body)
    \/ \E resp \in AnalysisResponses : analyze_grammar_return(resp)
    \/ analyzeGrammar_respond

SpecEndpoint == Init /\ [][NextEndpoint]_vars

\* translate_text alone, under the scheduling of the event loop: a ready
\* task is run, a dispatched call completes, and the handler is resumed when
\* gather has every result
NextTranslate ==
    \/ \E req \in TranslationRequests : translate_text(req)
    \/ \E i \in 1..Len(tasks) : task_call_generate(i)
    \/ \E i \in 1..Len(tasks), resp \in EndpointResponses : task_return(i, resp)
    \/ translate_text_aggregate

SpecTranslate == Init /\ [][NextTranslate]_vars

SpecFair ==
    /\ Init /\ [][NextTranslate]_vars
    /\ WF_vars(\E i \in 1..Len(tasks) : task_call_generate(i))
    /\ WF_vars(\E i \in 1..Len(tasks), resp \in EndpointResponses : task_return(i, resp))
    /\ WF_vars(translate_text_aggregate)

\* the single-target variants: translate_text of autogen / crewai and the
\* translation graph of langgraph
NextSingle ==
    \/ \E req \in AutogenRequests : autogen_translate_text(req)
    \/ \E resp \in Responses : autogen_translate_text_return(resp)
    \/ \E req \in AutogenRequests : TranslationGraph_translate(req)
    \/ TranslationGraph_validate
    \/ TranslationGraph_translate_text
    \/ \E resp \in Responses : TranslationGraph_translate_text_return(resp)
    \/ TranslationGraph_format
    \/ TranslationGraph_translate_return

SpecSingle == Init /\ [][NextSingle]_vars

\* translate_to_multiple_languages of autogen / crewai on texts of every
\* kind: empty, blank, plain, over the limits
MultipleTexts == Texts \cup {LongText}

NextMultiple ==
    \/ \E text \in MultipleTexts, source_language \in Codes,
          target_languages \in TargetLists :
            translate_to_multiple_languages(text, source_language, target_languages)
    \/ \E i \in 1..Len(tasks) : multiple_translate_text(i)
    \/ \E i \in 1..Len(tasks), resp \in EndpointResponses :
            multiple_translate_text_return(i, resp)
    \/ translate_to_multiple_languages_return

SpecMultiple == Init /\ [][NextMultiple]_vars

\* the annotator alone, called on its bounded inputs
NextAnnotator == parse_grammar_components_call

SpecAnnotator == Init /\ [][NextAnnotator]_vars

\* ================================================================ claims
Accepted == op = "translate_text" /\ pc = "done" /\ tasks # <<>>
Keys(res) == Range(DictKeys(res.translations))
Requested == Range(request.targetLanguages)
TaskFailed(i) == tasks[i].st = "done" /\ tasks[i].out[3] # <<>>
TaskSucceeded(i) == tasks[i].st = "done" /\ tasks[i].out[3] = <<>>
FailedIdx == {i \in 1..Len(tasks) : TaskFailed(i)}
FailedLangs == {tasks[i].lang : i \in FailedIdx}
SucceededLangs == {tasks[i].lang : i \in 1..Len(tasks) \ FailedIdx}
\* the codes a "Translation failed for: a, b" message names
NamedCodes(msg) == {msg[i] : i \in {j \in 2..Len(msg) : j % 2 = 0}}
\* the failed set an error implies
FailedSet(res) ==
    IF res.error = <<"All translations failed">> THEN Requested
    ELSE IF res.error # <<>> /\ Head(res.error) = "Translation failed for: "
    THEN NamedCodes(res.error)
    ELSE {}
\* the request's codes that are in F, in request order
RECURSIVE ListIn(_, _)
ListIn(items, S) ==
    IF items = <<>> THEN <<>>
    ELSE IF Head(items) \in S THEN <<Head(items)>> \o ListIn(Tail(items), S)
    ELSE ListIn(Tail(items), S)

\* C1: when translate_text returns for an accepted request, every requested
\* language is in exactly one of translations.keys() and the failed set the
\* error implies, and translations.keys() is a subset of the requested codes.
C1_ExactlyOne ==
    Accepted =>
        /\ Keys(result) \subseteq Requested
        /\ \A l \in Requested : (l \in Keys(result)) # (l \in FailedSet(result))

\* C2: when a non-empty proper subset F of the k calls' languages fail and the
\* rest succeed, translations has exactly k - |F| entries, none of F, and the
\* error is "Translation failed for: " followed by exactly the codes of F.
C2_PartialFailure ==
    (Accepted /\ FailedIdx # {} /\ FailedIdx # 1..Len(tasks)) =>
        /\ Len(result.translations) = Len(tasks) - Cardinality(FailedLangs)
        /\ Keys(result) \cap FailedLangs = {}
        /\ result.error = <<"Translation failed for: ">>
                            \o join(", ", ListIn(request.targetLanguages, FailedLangs))

\* C4: when all k calls succeed, translations has k entries and error is None.
C4_AllSucceed ==
    (Accepted /\ FailedIdx = {}) =>
        /\ Len(result.translations) = Len(tasks)
        /\ result.error = None

\* C8: a call answered with empty or whitespace-only text is a failure of its
\* language: the language is not in translations, it is in the failed set,
\* and no translation is stored with empty text.
C8_BlankIsFailure ==
    Accepted =>
        /\ \A i \in 1..Len(tasks) :
              (tasks[i].resp.kind = "ok" /\ strip(tasks[i].resp.text) = <<>>) =>
                  /\ tasks[i].lang \notin Keys(result)
                  /\ tasks[i].lang \in FailedSet(result)
        /\ \A j \in 1..Len(result.translations) : result.translations[j][2] # <<>>

\* C3: when every dispatched call fails, translations is empty and the error
\* is exactly "All translations failed"; and that error appears only on a
\* request that dispatched at least one call and had no call succeed.
C3_AllFailed ==
    /\ (Accepted /\ FailedIdx = 1..Len(tasks)) =>
          /\ result.translations = <<>>
          /\ result.error = <<"All translations failed">>
    /\ result.error = <<"All translations failed">> =>
          /\ Accepted
          /\ calls >= 1
          /\ \A i \in 1..Len(tasks) : ~TaskSucceeded(i)
C3_Witness ==
    /\ Accepted /\ Len(tasks) >= 2 /\ FailedIdx = 1..Len(tasks)
    /\ result.error = <<"All translations failed">>

\* C5: the aggregate result exists only after every dispatched call has
\* completed: while a call is pending no result has been built, and a
\* returned result finds every task done.
C5_FullJoin ==
    /\ (op = "translate_text" /\ pc = "done") =>
          \A i \in 1..Len(tasks) : tasks[i].st = "done"
    /\ (\E i \in 1..Len(tasks) : tasks[i].st # "done") => result = NoResult
C5_Witness ==
    /\ Accepted /\ Len(tasks) >= 2 /\ result.error # None
    /\ result.translations # <<>>

\* C6: a failing call leaves the other languages alone: every requested call
\* is dispatched and ends with the generation model's own answer, and whether
\* a language is in translations, and with what text, is decided by the
\* answers to that language's calls only.
C6_Isolation ==
    Accepted =>
        /\ calls = Len(tasks)
        /\ \A i \in 1..Len(tasks) : tasks[i].st = "done" /\ tasks[i].resp \in Responses
        /\ \A l \in Requested :
              LET ok == {i \in 1..Len(tasks) :
                            /\ tasks[i].lang = l
                            /\ tasks[i].resp.kind = "ok"
                            /\ strip(tasks[i].resp.text) # <<>>}
              IN /\ (l \in Keys(result)) <=> (ok # {})
                 /\ ok # {} =>
                      LET last == CHOOSE i \in ok : \A j \in ok : j <= i
                      IN DictGet(result.translations, l) = strip(tasks[last].resp.text)
C6_Witness ==
    /\ Accepted /\ Len(tasks) = 3
    /\ TaskFailed(1) /\ TaskSucceeded(2) /\ TaskFailed(3)
    /\ tasks[1].lang # tasks[2].lang
    /\ DictHas(result.translations, tasks[2].lang)

\* C7: when validate_request returns a message the service returns a result
\* carrying that message, with no translations / no components, and makes no
\* generation call; analyze with empty text gives "Text cannot be empty".
C7_ValidationShortCircuit ==
    /\ (op = "translate_text" /\ TranslationService_validate_request(request) # None) =>
          /\ pc = "done" /\ calls = 0 /\ tasks = <<>>
          /\ result.error = TranslationService_validate_request(request)
          /\ result.translations = <<>>
    /\ (op = "analyze_grammar" /\ AnalysisService_validate_request(request) # None) =>
          /\ pc = "done" /\ calls = 0
          /\ result.error = AnalysisService_validate_request(request)
          /\ result.components = <<>>
    /\ (op = "analyze_grammar" /\ request.text = <<>>) =>
          /\ result.error = <<"Text cannot be empty">>
          /\ calls = 0
C7_Witness ==
    /\ op = "analyze_grammar" /\ request.text = <<>> /\ pc = "done" /\ calls = 0
    /\ result.error = <<"Text cannot be empty">> /\ result.components = <<>>

\* the validation rules, stated on the request alone
BlankText(t) == \A i \in 1..Len(t) : t[i] \in Whitespace
TooLong(t) == Len(t) > MAX_TEXT_LENGTH
Unsupported(code) == \A k \in 1..Len(SUPPORTED_LANGUAGES) : SUPPORTED_LANGUAGES[k] # code
UnsupportedTargets == {i \in 1..Len(request.targetLanguages) :
                          Unsupported(request.targetLanguages[i])}

\* C9: validate_request is fail-fast in the order empty text, text too long,
\* empty target list, unsupported codes: the request is answered with the
\* message of the first rule it violates, and a request that violates none
\* passes validation.
C9_FailFastOrder ==
    /\ op = "translate_text" =>
          IF BlankText(request.sourceText)
          THEN pc = "done" /\ result.error = <<"Source text cannot be empty">>
          ELSE IF TooLong(request.sourceText)
          THEN /\ pc = "done"
               /\ result.error = <<"Source text exceeds maximum length of ",
                                   ToString(MAX_TEXT_LENGTH), " characters">>
          ELSE IF request.targetLanguages = <<>>
          THEN /\ pc = "done"
               /\ result.error = <<"At least one target language must be specified">>
          ELSE IF UnsupportedTargets # {}
          THEN pc = "done" /\ Head(result.error) = "Unsupported language codes: "
          ELSE /\ TranslationService_validate_request(request) = None
               /\ Len(tasks) = Len(request.targetLanguages)
    /\ op = "analyze_grammar" =>
          IF BlankText(request.text)
          THEN pc = "done" /\ result.error = <<"Text cannot be empty">>
          ELSE IF TooLong(request.text)
          THEN /\ pc = "done"
               /\ result.error = <<"Text exceeds maximum length of ",
                                   ToString(MAX_TEXT_LENGTH), " characters">>
          ELSE IF Unsupported(request.languageCode)
          THEN /\ pc = "done"
               /\ result.error = <<"Unsupported language code: ", request.languageCode>>
          ELSE /\ AnalysisService_validate_request(request) = None
               /\ calls = 1
\* a request that is blank, too long, without targets: the first rule answers
C9_Witness ==
    /\ op = "translate_text" /\ pc = "done"
    /\ BlankText(request.sourceText) /\ TooLong(request.sourceText)
    /\ request.targetLanguages = <<>>
    /\ result.error = <<"Source text cannot be empty">>

\* the codes a joined list names, in order
NamedList(msg) == [k \in 1..(Len(msg) \div 2) |-> msg[2 * k]]
UnsupportedList == ListNotIn(request.targetLanguages,
                             {c \in Codes : ~Unsupported(c)})

\* C10 as stated: a request whose text passes the text rules and that
\* references an unregistered code is rejected before any dispatch with an
\* error that names exactly the unregistered codes of the request, in the
\* multi-target and in the single-target variants.
C10_Original ==
    /\ (op = "translate_text" /\ UnsupportedTargets # {}
            /\ ~BlankText(request.sourceText) /\ ~TooLong(request.sourceText)) =>
          /\ pc = "done" /\ calls = 0 /\ result.translations = <<>>
          /\ NamedList(result.error) = UnsupportedList
    /\ (op = "autogen_translate_text"
            /\ ~BlankText(request.text) /\ ~TooLong(request.text)
            /\ (Unsupported(request.source_language)
                    \/ Unsupported(request.target_language))) =>
          /\ pc = "done" /\ calls = 0
          /\ Range(NamedList(result.error))
                = {c \in {request.source_language, request.target_language} :
                      Unsupported(c)}

\* C10 amended: such a request is always rejected before any dispatch.  In
\* the agno service, when the text rules pass and the target list is not
\* empty, the error is "Unsupported language codes: " followed by exactly the
\* unregistered target codes in request order (for analysis: "Unsupported
\* language code: " and the code).  In the single-target variants the error
\* says which side is unsupported and lists the registry, not the offending
\* code.
C10_UnsupportedCodes ==
    /\ (op = "translate_text" /\ UnsupportedTargets # {}) =>
          /\ pc = "done" /\ calls = 0 /\ tasks = <<>> /\ result.translations = <<>>
          /\ (~BlankText(request.sourceText) /\ ~TooLong(request.sourceText)) =>
                /\ Head(result.error) = "Unsupported language codes: "
                /\ NamedList(result.error) = UnsupportedList
                /\ \A j \in 2..Len(result.error) : j % 2 = 1 => result.error[j] = ", "
    /\ (op = "analyze_grammar" /\ Unsupported(request.languageCode)) =>
          /\ pc = "done" /\ calls = 0 /\ result.components = <<>>
          /\ (~BlankText(request.text) /\ ~TooLong(request.text)) =>
                result.error = <<"Unsupported language code: ", request.languageCode>>
    /\ (op = "autogen_translate_text"
            /\ (Unsupported(request.source_language)
                    \/ Unsupported(request.target_language))) =>
          /\ pc = "done" /\ calls = 0 /\ result.translated_text = <<>>
          /\ (~BlankText(request.text) /\ ~TooLong(request.text)) =>
                /\ Head(result.error) =
                      IF Unsupported(request.source_language)
                      THEN "Unsupported source language. Supported: "
                      ELSE "Unsupported target language. Supported: "
                /\ NamedList(result.error) = SUPPORTED_LANGUAGES
C10_Witness ==
    /\ op = "translate_text" /\ pc = "done" /\ calls = 0
    /\ request.targetLanguages = <<"xyz", "es", "tlh">>
    /\ result.translations = <<>>
    /\ result.error = <<"Unsupported language codes: ", "xyz", ", ", "tlh">>

\* the request was turned away with a message: by the request model (422)
\* or by validate_request (the error of the result)
Rejected ==
    /\ pc = "done"
    /\ tasks = <<>>
    /\ calls = 0
    /\ \/ op = "post_translateText" /\ result.detail # <<>>
       \/ op = "translate_text" /\ result.error # None

\* C11: a translation request whose target list has more entries than the
\* maximum count (12) is answered with a non-empty error message and is
\* never fanned out: no task is created and no generation call is made
C11_MaxCount ==
    Len(request.targetLanguages) > MAX_TARGET_LANGUAGES => Rejected

\* a list of thirteen supported codes was posted and turned away
C11_Witness ==
    /\ op = "post_translateText"
    /\ pc = "done"
    /\ Len(request.targetLanguages) = MAX_TARGET_LANGUAGES + 1
    /\ ListNotIn(request.targetLanguages, Range(SUPPORTED_LANGUAGES)) = <<>>
    /\ strip(request.sourceText) # <<>>
    /\ result.detail # <<>>

\* C12: every translation request that passes validation and is fanned out
\* has pairwise distinct target codes
C12_DistinctTargets ==
    (op = "translate_text" /\ pc = "gather") =>
        \A i, j \in 1..Len(request.targetLanguages) :
            i # j => request.targetLanguages[i] # request.targetLanguages[j]

\* ------------------------------------------------------- annotator claims
Annotated == op = "parse_grammar_components" /\ pc = "done"

Alnum == Upper \cup Lower \cup Digits

\* the spans are the maximal runs of characters of class C in src, each
\* once and in order, with the offsets and the text of the run
WellFormedSpans(spans, src, C) ==
    /\ \A k \in 1..Len(spans) :
         /\ 0 <= spans[k].startIndex
         /\ spans[k].startIndex < spans[k].endIndex
         /\ spans[k].endIndex <= Len(src)
         /\ spans[k].text = SubSeq(src, spans[k].startIndex + 1, spans[k].endIndex)
         /\ \A i \in (spans[k].startIndex + 1)..spans[k].endIndex : src[i] \in C
         /\ spans[k].startIndex = 0 \/ src[spans[k].startIndex] \notin C
         /\ spans[k].endIndex = Len(src) \/ src[spans[k].endIndex + 1] \notin C
    /\ \A k \in 1..(Len(spans) - 1) :
         /\ spans[k].startIndex < spans[k + 1].startIndex
         /\ spans[k].endIndex <= spans[k + 1].startIndex
    /\ \A i \in 1..Len(src) :
         src[i] \in C =>
            Cardinality({k \in 1..Len(spans) :
                            spans[k].startIndex < i /\ i <= spans[k].endIndex}) = 1

\* C13 as stated: every span is one maximal alphanumeric token of the
\* source, with no whitespace or punctuation inside, at its exact offsets,
\* in strictly increasing order, without overlap, and every such token is
\* covered exactly once
C13_Original ==
    (Annotated /\ request.raises = "none") =>
        WellFormedSpans(result, request.original_text, Alnum)

\* C13: every span is one maximal run of word characters (letters, digits
\* and the underscore) of the source: 0 <= startIndex < endIndex <= len,
\* the text is source[startIndex:endIndex], the starts strictly increase,
\* no two spans overlap, and every such run is covered exactly once in order
C13_Spans ==
    Annotated => WellFormedSpans(result, request.original_text, WordChars)

\* two or more spans over a source with a separator, one of them with an
\* underscore inside
C13_Witness ==
    /\ Annotated
    /\ Len(result) >= 2
    /\ \E k \in 1..Len(result) : "_" \in Range(result[k].text)
    /\ "," \in Range(request.original_text)

\* the mapping Strategy A extracts from the analysis of the call
CallMap == _parse_structured_analysis(request.analysis)

\* C14: when the call completes its try body and Strategy A's mapping has
\* an entry, every source token is typed by looking its lowercased form up
\* in the mapping, OTHER when absent; no lexical rule is applied
C14_StrategyA ==
    (Annotated /\ request.raises = "none") =>
        LET component_map == CallMap
        IN component_map # <<>> =>
            \A k \in 1..Len(result) :
                result[k].componentType =
                    IF DictHas(component_map, lower(result[k].text))
                    THEN DictGet(component_map, lower(result[k].text))
                    ELSE "OTHER"

\* a token written with a capital is typed from the mapping, and a token
\* the mapping lacks is OTHER
C14_Witness ==
    /\ Annotated
    /\ request.raises = "none"
    /\ CallMap # <<>>
    /\ \E k \in 1..Len(result) :
         /\ result[k].text # lower(result[k].text)
         /\ DictHas(CallMap, lower(result[k].text))
         /\ result[k].componentType = DictGet(CallMap, lower(result[k].text))
    /\ \E k \in 1..Len(result) :
         /\ ~DictHas(CallMap, lower(result[k].text))
         /\ result[k].componentType = "OTHER"

\* the matches of pattern 1 in s from p on, as (lowercased word, type token)
RECURSIVE FindAll1(_, _)
FindAll1(s, p) ==
    IF p > Len(s) THEN <<>>
    ELSE LET m == Pattern1At(s, p)
         IN IF m.ok
            THEN <<[word |-> lower(m.g1), type |-> m.g2]>> \o FindAll1(s, m.end)
            ELSE FindAll1(s, p + 1)

\* the matches of pattern 2 in s from p on
RECURSIVE FindAll2(_, _)
FindAll2(s, p) ==
    IF p > Len(s) THEN <<>>
    ELSE LET m == Pattern2At(s, p)
         IN IF m.ok
            THEN <<[word |-> lower(m.g2), type |-> m.g1]>> \o FindAll2(s, m.end)
            ELSE FindAll2(s, p + 1)

InVocabulary(ms) == SelectSeq(ms, LAMBDA m : InColors(m.type))
MatchedWords(ms) == {ms[k].word : k \in 1..Len(ms)}
\* the type of the last match of ms for word w
LastType(ms, w) ==
    LET ks == {k \in 1..Len(ms) : ms[k].word = w}
    IN TypeName(ms[CHOOSE k \in ks : \A j \in ks : j <= k].type)

Matches1 == InVocabulary(FindAll1(request.analysis, 1))
Matches2 == InVocabulary(FindAll2(request.analysis, 1))

\* C15: the mapping holds exactly the lowercased words of the matches whose
\* type token is in the vocabulary; a word with a pattern-2 match has the
\* type of its last pattern-2 match, any other word the type of its last
\* pattern-1 match
C15_PatternOrder ==
    Annotated =>
        LET component_map == CallMap
            m1 == Matches1
            m2 == Matches2
            words1 == MatchedWords(m1)
            words2 == MatchedWords(m2)
        IN /\ Range(DictKeys(component_map)) = words1 \cup words2
           /\ \A w \in words1 \cup words2 :
                DictGet(component_map, w) =
                    IF w \in words2 THEN LastType(m2, w) ELSE LastType(m1, w)

\* one word has a pattern-1 match and a pattern-2 match of different types
C15_Witness ==
    /\ Annotated
    /\ \E w \in MatchedWords(Matches1) \cap MatchedWords(Matches2) :
         /\ LastType(Matches1, w) # LastType(Matches2, w)
         /\ DictGet(CallMap, w) = LastType(Matches2, w)

\* the closed classes in the order the claim gives them
ClosedClasses ==
    <<[words |-> articles, type |-> "ARTICLE"],
      [words |-> determiners, type |-> "DETERMINER"],
      [words |-> pronouns, type |-> "PRONOUN"],
      [words |-> prepositions, type |-> "PREPOSITION"],
      [words |-> conjunctions, type |-> "CONJUNCTION"]>>
ClosedTypes == {ClosedClasses[k].type : k \in 1..Len(ClosedClasses)}
IsClosed(w) == \E k \in 1..Len(ClosedClasses) : w \in ClosedClasses[k].words
\* the first rule of the claim's priority order that applies to w
ExpectedLexical(w) ==
    IF IsClosed(w)
    THEN ClosedClasses[CHOOSE k \in 1..Len(ClosedClasses) :
                          /\ w \in ClosedClasses[k].words
                          /\ \A j \in 1..(k - 1) : w \notin ClosedClasses[j].words].type
    ELSE IF Len(w) >= 2 /\ SubSeq(w, Len(w) - 1, Len(w)) = <<"l", "y">> THEN "ADVERB"
    ELSE IF \/ Len(w) >= 3 /\ SubSeq(w, Len(w) - 2, Len(w)) = <<"i", "n", "g">>
            \/ Len(w) >= 2 /\ SubSeq(w, Len(w) - 1, Len(w)) \in {<<"e", "d">>, <<"e", "n">>}
    THEN "VERB"
    ELSE "NOUN"

\* the call ended in Strategy B: the mapping was empty or a call threw
StrategyB == request.raises # "none" \/ CallMap = <<>>

\* C16: Strategy B types a token by the first rule that applies, in the
\* order article, determiner, pronoun, preposition, conjunction, -ly,
\* -ing/-ed/-en, NOUN: 'her' is a DETERMINER, 'for' a PREPOSITION, a
\* closed-class word keeps its closed-class type
C16_LexicalPriority ==
    (Annotated /\ StrategyB) =>
        \A k \in 1..Len(result) :
            LET w == lower(result[k].text)
            IN /\ result[k].componentType = ExpectedLexical(w)
               /\ w = <<"h", "e", "r">> => result[k].componentType = "DETERMINER"
               /\ w = <<"f", "o", "r">> => result[k].componentType = "PREPOSITION"
               /\ IsClosed(w) => result[k].componentType \in ClosedTypes

\* a text with 'her' and 'for' was typed by Strategy B
C16_Witness ==
    /\ Annotated
    /\ request.raises = "none"
    /\ CallMap = <<>>
    /\ \E k \in 1..Len(result) :
         /\ lower(result[k].text) = <<"h", "e", "r">>
         /\ result[k].componentType = "DETERMINER"
    /\ \E k \in 1..Len(result) :
         /\ lower(result[k].text) = <<"f", "o", "r">>
         /\ result[k].componentType = "PREPOSITION"

\* the first scenario: its source text, an analysis without a pattern
InScenario1 ==
    /\ Annotated
    /\ request.raises = "none"
    /\ request.original_text = Scenario1
    /\ CallMap = <<>>

\* the type the call gave the word, for each of its spans
TypedAs(word, type) ==
    \A k \in 1..Len(result) :
        result[k].text = word => result[k].componentType = type

\* C17 as stated: in the first scenario 'The' and 'the' are ARTICLE, 'jumps'
\* is NOUN and 'over' is PREPOSITION
C17_Original ==
    InScenario1 =>
        /\ TypedAs(<<"T", "h", "e">>, "ARTICLE")
        /\ TypedAs(<<"t", "h", "e">>, "ARTICLE")
        /\ TypedAs(<<"j", "u", "m", "p", "s">>, "NOUN")
        /\ TypedAs(<<"o", "v", "e", "r">>, "PREPOSITION")

\* C17: in the first scenario Strategy B fires: 'The' and 'the' are
\* ARTICLE, 'jumps' is NOUN, and 'over', which is in no closed class and
\* has no suffix of the rules, is NOUN too
C17_Scenario1 ==
    InScenario1 =>
        /\ Len(result) = 9
        /\ TypedAs(<<"T", "h", "e">>, "ARTICLE")
        /\ TypedAs(<<"t", "h", "e">>, "ARTICLE")
        /\ TypedAs(<<"j", "u", "m", "p", "s">>, "NOUN")
        /\ TypedAs(<<"o", "v", "e", "r">>, "NOUN")

\* the scenario was run and gave a span for 'over'
C17_Witness ==
    /\ InScenario1
    /\ \E k \in 1..Len(result) : result[k].text = <<"o", "v", "e", "r">>

\* the call named by request.raises threw inside the try body
Threw ==
    \/ request.raises = "_parse_structured_analysis"
    \/ request.raises = "_create_components_from_map" /\ CallMap # <<>>

\* the number of maximal word runs of text
WordRuns(text) ==
    Cardinality({i \in 1..Len(text) :
                    /\ text[i] \in WordChars
                    /\ i = 1 \/ text[i - 1] \notin WordChars})

LexicalTypes == ClosedTypes \cup {"ADVERB", "VERB", "NOUN"}

\* C18: every call of parse_grammar_components returns a list; when the
\* structured extraction or the map-based building throws, the list is
\* exactly Strategy B's; Strategy B gives every token of the source one of
\* its types
C18_NeverRaises ==
    Annotated =>
        /\ DOMAIN result = 1..Len(result)
        /\ LET fallback == _create_components_from_text(request.original_text)
           IN /\ Threw => result = fallback
              /\ Len(fallback) = WordRuns(request.original_text)
              /\ \A k \in 1..Len(fallback) : fallback[k].componentType \in LexicalTypes

\* the map-based building threw on a non-empty mapping and the call still
\* returned spans, typed by Strategy B and not by the mapping
C18_Witness ==
    /\ Annotated
    /\ request.raises = "_create_components_from_map"
    /\ CallMap # <<>>
    /\ result # <<>>
    /\ result # _create_components_from_map(request.original_text, CallMap)

\* ------------------------------------------------------- analysis claims
\* the generation call ended in an exception of the client or a blank text
CallFailed(resp) ==
    \/ resp.kind \in ErrKinds
    \/ resp.kind = "ok" /\ strip(resp.text) = <<>>

\* C19: when the generation call of an analysis fails (connection failure,
\* timeout, bad status, blank text) the AnalysisResult has its error set and
\* no components; in every AnalysisResult a set error goes with an empty
\* component list
C19_AnalysisFailure ==
    (op = "analyze_grammar" /\ pc = "done") =>
        /\ (tasks # <<>> /\ CallFailed(tasks[1].resp)) =>
              result.error # None /\ result.components = <<>>
        /\ result.error # None => result.components = <<>>

\* an analysis whose text has a word got a blank answer
C19_Witness ==
    /\ op = "analyze_grammar"
    /\ pc = "done"
    /\ tasks # <<>>
    /\ tasks[1].resp.kind = "ok"
    /\ strip(tasks[1].resp.text) = <<>>
    /\ _create_components_from_text(request.text) # <<>>
    /\ result.error # None
    /\ result.components = <<>>

\* ------------------------------------------------------- endpoint claims
\* the request got its HTTP response: from the handler, or 422 from the
\* request model before the handler ran
Answered ==
    \/ pc = "responded"
    \/ pc = "done" /\ op \in {"post_translateText", "post_analyzeGrammar"}

\* a translation body with blank text, no target, an unsupported target or
\* a text over the length bound
InvalidTranslation(body) ==
    \/ strip(body.sourceText) = <<>>
    \/ body.targetLanguages = <<>>
    \/ \E i \in 1..Len(body.targetLanguages) :
          body.targetLanguages[i] \notin Range(SUPPORTED_LANGUAGES)
    \/ Len(body.sourceText) > MAX_TEXT_LENGTH

\* an analysis body with blank text, an unsupported code or a text over the
\* length bound
InvalidAnalysis(body) ==
    \/ strip(body.text) = <<>>
    \/ body.languageCode \notin Range(SUPPORTED_LANGUAGES)
    \/ Len(body.text) > MAX_TEXT_LENGTH

\* C21: a translateText or analyzeGrammar request with empty text, an empty
\* target list, an unsupported language code or text over the length bound
\* is answered with status 400 or 422, never 200, and no generation call
\* is made for it
C21_InvalidRejected ==
    /\ (Answered /\ op \in {"post_translateText", "translate_text"}
                 /\ InvalidTranslation(request)) =>
          result.status_code \in {400, 422} /\ calls = 0
    /\ (Answered /\ op \in {"post_analyzeGrammar", "analyze_grammar"}
                 /\ InvalidAnalysis(request)) =>
          result.status_code \in {400, 422} /\ calls = 0

\* an analysis of a sound text in an unsupported language went through the
\* request model and was answered 400 by the handler
C21_Witness ==
    /\ pc = "responded"
    /\ op = "analyze_grammar"
    /\ strip(request.text) # <<>>
    /\ Len(request.text) <= MAX_TEXT_LENGTH
    /\ request.languageCode \notin Range(SUPPORTED_LANGUAGES)
    /\ result.status_code = 400

\* the analysis request passed validation and its generation call returned
\* a text that is not blank
AnalysisSucceeded ==
    /\ op = "analyze_grammar"
    /\ pc = "done"
    /\ tasks # <<>>
    /\ ~CallFailed(tasks[1].resp)

\* C22 as stated: an analysis that passes validation and whose generation
\* call succeeds has error None and at least one component
C22_Original ==
    AnalysisSucceeded => result.error = None /\ result.components # <<>>

\* C22: an analysis that passes validation and whose generation call
\* succeeds has error None and one component per maximal run of word
\* characters of its text: none when the text has no word character
C22_Components ==
    AnalysisSucceeded =>
        /\ result.error = None
        /\ Len(result.components) = WordRuns(request.text)
        /\ result.components # <<>> <=> \E i \in 1..Len(request.text) :
                                            request.text[i] \in WordChars

\* the analysis of a text with a word succeeded and gave its component
C22_Witness ==
    /\ AnalysisSucceeded
    /\ WordRuns(request.text) = 1
    /\ Len(result.components) = 1
    /\ result.error = None

\* a step that ends an in-flight call of task j without that call's own
\* answer, or resumes the handler while a call is in flight
InFlight(j) == tasks[j].st = "awaiting"
Undisturbed ==
    \A j \in 1..Len(tasks) :
        InFlight(j) =>
            /\ Len(tasks') = Len(tasks)
            /\ \/ tasks'[j] = tasks[j] /\ pc' = "gather"
               \/ /\ tasks'[j].st = "done"
                  /\ tasks'[j].resp \in EndpointResponses
                  /\ tasks'[j].out = translate_to_language(tasks[j].lang, tasks'[j].resp)
                  /\ \A k \in 1..Len(tasks) : k # j => tasks'[k] = tasks[k]

\* C23: translate_text has no cancellation and no deadline: when every
\* dispatched call eventually completes, a request that reached the fan-out
\* eventually returns a TranslationResult, and no step cancels an in-flight
\* sibling call or returns while one is in flight.
C23_Returns ==
    /\ (op = "translate_text" /\ pc = "gather") ~>
          (pc = "done" /\ result # NoResult /\ result.sourceText = request.sourceText)
    /\ [][Undisturbed]_vars
C23_Witness ==
    /\ op = "translate_text" /\ pc = "done" /\ Len(tasks) = 2 /\ calls = 2
    /\ tasks[1].resp.kind = "ConnectError" /\ tasks[2].resp.kind = "ok"
    /\ TaskFailed(1) /\ TaskSucceeded(2)
    /\ result.sourceText = request.sourceText
    /\ Len(result.translations) = 1

SameLanguageMessage == <<"Source and target languages cannot be the same">>
SameLanguage == request.source_language = request.target_language
EarlierRulesPass ==
    /\ ~BlankText(request.text) /\ ~TooLong(request.text)
    /\ ~Unsupported(request.source_language) /\ ~Unsupported(request.target_language)

\* C24: in the single-target variants a request whose source code equals its
\* target code is rejected and no generation call is made for it; the error
\* is 'Source and target languages cannot be the same' once the earlier rules
\* have passed: in validate_request the text rules and both membership rules,
\* in the graph's validate node the text rule.
C24_SameLanguage ==
    /\ (op = "autogen_translate_text" /\ pc = "done") =>
          /\ SameLanguage => result.error # None /\ calls = 0
          /\ result.error = SameLanguageMessage <=> (SameLanguage /\ EarlierRulesPass)
    /\ (op = "TranslationGraph_translate" /\ pc = "done") =>
          /\ SameLanguage => result.raised /\ calls = 0
          /\ result.value = SameLanguageMessage <=>
                (SameLanguage /\ ~BlankText(request.text))
C24_Witness ==
    /\ op = "autogen_translate_text" /\ pc = "done"
    /\ request.source_language = "es" /\ request.target_language = "es"
    /\ result.error = SameLanguageMessage /\ calls = 0

\* a step of one per-language task: the slot of one index changes, to that
\* index's own language and outcome, and nothing the caller owns changes
TaskStep(i) ==
    /\ Len(tasks') = Len(tasks)
    /\ \A j \in 1..Len(tasks) : j # i => tasks'[j] = tasks[j]
    /\ tasks'[i] # tasks[i]
    /\ tasks'[i].lang = request.targetLanguages[i]
    /\ tasks'[i].st = "done" =>
          /\ tasks'[i].out[1] = request.targetLanguages[i]
          /\ tasks'[i].out = translate_to_language(tasks[i].lang, tasks'[i].resp)
    /\ result' = result /\ result = NoResult
    /\ pc' = "gather"
\* the caller's step after the join: every slot is filled and stays as it
\* is, and the maps are built from the slots
CallerStep ==
    /\ \A i \in 1..Len(tasks) : tasks[i].st = "done"
    /\ tasks' = tasks
    /\ pc' = "done"
    /\ \A k \in 1..Len(result'.translations) :
          \E i \in 1..Len(tasks) :
              /\ tasks[i].out[3] = <<>>
              /\ result'.translations[k] = <<tasks[i].out[1], tasks[i].out[2]>>

\* C25: while the per-language tasks of a request run, no task writes the
\* shared translations / errors maps: each step of a task changes only the
\* result slot at the task's own index, to that task's (language, text,
\* error) tuple, and the maps are written by the caller alone, after the
\* join.
C25_OwnSlot ==
    [][(op = "translate_text" /\ pc = "gather") =>
          (CallerStep \/ \E i \in 1..Len(tasks) : TaskStep(i))]_vars
C25_Witness ==
    /\ op = "translate_text" /\ pc = "gather" /\ Len(tasks) = 3
    /\ tasks[1].st = "awaiting" /\ tasks[3].st = "scheduled"
    /\ TaskSucceeded(2) /\ tasks[2].out[1] = request.targetLanguages[2]
    /\ request.targetLanguages[1] # request.targetLanguages[2]
    /\ result = NoResult

TranslateAnswered == op = "translate_text" /\ pc = "responded"
\* what translate_text returned, computed again from the request and the
\* per-language outcomes
Returned ==
    IF tasks = <<>>
    THEN TranslationResult(request.sourceText, <<>>,
                           TranslationService_validate_request(request))
    ELSE LET acc == ProcessResults([i \in 1..Len(tasks) |-> tasks[i].out],
                                   [translations |-> <<>>, errors |-> <<>>])
         IN TranslationResult(request.sourceText, acc.translations,
                              OverallError(acc.translations, acc.errors))

\* C26: the translateText endpoint answers with the TranslationResult (200)
\* whenever translations is non-empty, an error set or not, and raises HTTP
\* 400 with the error as detail exactly when the error is set and
\* translations is empty.
C26_PartialIsSuccess ==
    TranslateAnswered =>
        /\ Returned.translations # <<>> =>
              result.status_code = 200 /\ result.body = Returned
        /\ result.status_code = 400 <=>
              (Returned.error # None /\ Returned.translations = <<>>)
        /\ result.status_code = 400 => result.detail = Returned.error
        /\ result.status_code \in {200, 400}
C26_Witness ==
    /\ TranslateAnswered /\ result.status_code = 200
    /\ result.body.error # None /\ result.body.translations # <<>>
    /\ \E i \in 1..Len(tasks) : TaskFailed(i)

MultipleReturned == op = "translate_to_multiple_languages" /\ pc = "done"

\* C27: translate_to_multiple_languages returns, for any text, source
\* language and list of target codes, a map with exactly one result per
\* requested target code; a failure for one code is that code's result with
\* error set, never an exception escaping the operation.
C27_AlwaysAMap ==
    MultipleReturned =>
        /\ ~result.raised
        /\ Range(DictKeys(result.translations)) = Range(request.target_languages)
        /\ Len(result.translations) = Cardinality(Range(request.target_languages))

\* the calls made so far: one for each task that has left its start
Dispatched == {i \in 1..Len(tasks) : tasks[i].st # "scheduled"}

\* C28: an accepted request makes exactly one generation call per entry of
\* its target list: task i is the call for entry i, a call is neither
\* repeated after a failure nor skipped, and when translate_text returns the
\* number of calls is the length of the list.
C28_OneCallPerEntry ==
    (op = "translate_text" /\ pc \in {"gather", "done"} /\ tasks # <<>>) =>
        /\ Len(tasks) = Len(request.targetLanguages)
        /\ \A i \in 1..Len(tasks) : tasks[i].lang = request.targetLanguages[i]
        /\ calls = Cardinality(Dispatched)
        /\ pc = "done" => calls = Len(request.targetLanguages)
C28_Witness ==
    /\ Accepted /\ Len(request.targetLanguages) = 3 /\ calls = 3
    /\ request.targetLanguages[1] = request.targetLanguages[2]
    /\ TaskFailed(1) /\ TaskFailed(2) /\ TaskSucceeded(3)

\* the languages of the entries that satisfy P, each once, in list order
EntriesWhere(P(_)) ==
    first_occurrences(
        [k \in 1..Len(SelectSeq([i \in 1..Len(tasks) |-> i], P)) |->
            tasks[SelectSeq([i \in 1..Len(tasks) |-> i], P)[k]].lang])
SucceededCodes == EntriesWhere(TaskSucceeded)
FailedCodes == EntriesWhere(TaskFailed)
\* the text of the last entry of a language that succeeded
LastText(l) ==
    LET ok == {i \in 1..Len(tasks) : tasks[i].lang = l /\ TaskSucceeded(i)}
    IN tasks[CHOOSE i \in ok : \A j \in ok : j <= i].out[2]
\* the result the per-entry outcomes determine, read off the request list
Determined ==
    [sourceText |-> request.sourceText,
     translations |-> [k \in 1..Len(SucceededCodes) |->
                          <<SucceededCodes[k], LastText(SucceededCodes[k])>>],
     error |-> IF FailedCodes = <<>> THEN None
               ELSE IF SucceededCodes = <<>> THEN <<"All translations failed">>
               ELSE <<"Translation failed for: ">> \o join(", ", FailedCodes)]

\* C29: the codes after 'Translation failed for:' and the keys of
\* translations come in the order of the request list, whatever the order in
\* which the calls completed: the returned TranslationResult is the one the
\* per-entry outcomes determine.
C29_RequestOrder ==
    Accepted =>
        /\ DictKeys(result.translations) = SucceededCodes
        /\ (result.error # None /\ Head(result.error) = "Translation failed for: ") =>
              NamedList(result.error) = FailedCodes
        /\ result = Determined
C29_Witness ==
    /\ Accepted /\ request.targetLanguages = <<"fr", "es", "fr">>
    /\ TaskSucceeded(1) /\ TaskFailed(2) /\ TaskFailed(3)
    /\ DictKeys(result.translations) = <<"fr">>
    /\ NamedList(result.error) = <<"es", "fr">>

InGraph == op = "TranslationGraph_translate"
\* the graph state a run has reached
GraphState == IF pc = "done" THEN result.state ELSE result
NodesRun == [k \in 1..Len(tasks) |-> tasks[k].node]
Prefixes(s) == {SubSeq(s, 1, n) : n \in 0..Len(s)}
\* the error the validate node records for the request, None when it
\* records none
ValidateError ==
    IF BlankText(request.text) THEN <<"Text cannot be empty">>
    ELSE IF request.source_language = request.target_language
    THEN <<"Source and target languages cannot be the same">>
    ELSE None

\* C30: TranslationGraph runs its nodes in the order validate, translate,
\* format; translate() never returns an empty string: it returns a non-empty
\* translated_text or raises with the recorded error, which is 'Translation
\* produced no result' when the LLM answered blank text; and a run whose
\* validate node recorded an error makes no LLM call and keeps that error
\* to the end.
C30_GraphOrder ==
    InGraph =>
        /\ NodesRun \in Prefixes(<<"validate", "translate", "format">>)
        /\ pc \in {"END", "done"} => Len(NodesRun) = 3
        /\ pc = "done" =>
              /\ result.value # <<>>
              /\ result.raised <=> result.state.error # None
              /\ result.raised => result.value = result.state.error
              /\ ~result.raised =>
                    /\ result.value = strip(tasks[2].resp.text)
                    /\ tasks[2].resp.kind = "ok"
              /\ (tasks[2].resp.kind = "ok" /\ BlankText(tasks[2].resp.text)) =>
                    /\ result.raised
                    /\ result.value = <<"Translation produced no result">>
        /\ (Len(NodesRun) >= 1 /\ ValidateError # None) =>
              /\ calls = 0
              /\ GraphState.error = ValidateError
              /\ \A k \in 1..Len(tasks) : tasks[k].resp = NoResponse
              /\ pc = "done" => result.raised /\ result.value = ValidateError
C30_Witness ==
    /\ InGraph /\ pc = "done" /\ calls = 1
    /\ NodesRun = <<"validate", "translate", "format">>
    /\ tasks[2].resp = [kind |-> "ok", text |-> <<" ">>]
    /\ result.raised /\ result.value = <<"Translation produced no result">>
====
